---- MODULE Spec2Model ----
(***************************************************************************)
(* Model of kjeller/main.py: the heating controller's polling loop         *)
(* (main), the Tibber price cache, the per-room schedule matcher           *)
(* (RoomConfig.within_time_range), the target policy (set_schedule) and    *)
(* the reconciliation against the deCONZ thermostat (ensure_temperature,   *)
(* adjust_temperature).                                                    *)
(*                                                                         *)
(* Conventions.  Time is counted in minutes since a Monday 00:00 UTC; the  *)
(* host's local time zone is UTC, so datetime.combine(...).astimezone(UTC) *)
(* keeps the wall-clock minute.  Temperatures reported by the thermostat   *)
(* are kept in the device's unit (1/100 degree): v / 100 == t holds        *)
(* exactly when v == t * 100.  Prices are kept in 1/100 kr.  An optional   *)
(* Python value is <<>> for None and <<v>> for the value v.  The two file  *)
(* sinks (the tibber file and prom/<name>.prom) are writable.              *)
(***************************************************************************)
EXTENDS Integers, Sequences, FiniteSets, TLC

VARIABLES
    pc,                        \* position of main(): load, update, rooms, sleep, crashed
    error,                     \* the exception that left main(), "none" while it runs
    now,                       \* datetime.now(UTC), in minutes
    config,                    \* the Config returned by load_config()
    room_idx,                  \* index into config.room of set_schedule's for loop
    daily_electricity_prices,  \* Tibber.daily_electricity_prices
    price_now,                 \* Tibber.price_now
    thermostat,                \* the deCONZ thermostats, by room index
    tick,                      \* the fetch and the rooms handled in the current tick
    ev,                        \* the latest iteration of set_schedule's loop
    eval                       \* the latest evaluation of within_time_range on its own

vars == <<pc, error, now, config, room_idx, daily_electricity_prices,
          price_now, thermostat, tick, ev, eval>>

----------------------------------------------------------------------------
(* Bounds of the model *)

MaxDay == 1
NumRooms == 2
MaxWindows == 2
MaxSamples == 2

(* Program constants *)

MinutesPerHour == 60
MinutesPerDay == 1440
DefaultTemperature == 10
ClampLow == 5
ClampHigh == 25
Scale == 100

----------------------------------------------------------------------------
(* Optional values and Python truthiness *)

None == <<>>

Some(v) == <<v>>

IsNone(o) == o = <<>>

Val(o) == o[1]

\* x or y, for optional numbers: None and 0 are falsy
PyOr(a, b) == IF ~IsNone(a) /\ Val(a) # 0 THEN a ELSE b

----------------------------------------------------------------------------
(* Strings are sequences of one-character strings *)

Digits == <<"0", "1", "2", "3", "4", "5", "6", "7", "8", "9">>

IsDigit(c) == \E k \in 1..10 : Digits[k] = c

DigitVal(c) == (CHOOSE k \in 1..10 : Digits[k] = c) - 1

\* index of the first "-" in s, 0 when there is none
RECURSIVE FindDash(_, _)
FindDash(s, k) ==
    IF k > Len(s) THEN 0
    ELSE IF s[k] = "-" THEN k
    ELSE FindDash(s, k + 1)

\* s.split("-"): the list of the parts between the separators
RECURSIVE Split(_)
Split(s) ==
    LET d == FindDash(s, 1)
    IN  IF d = 0 THEN <<s>>
        ELSE <<SubSeq(s, 1, d - 1)>> \o Split(SubSeq(s, d + 1, Len(s)))

\* datetime.strptime(s, "%H:%M").time() as minutes of the day.
\* %H is the regex 2[0-3]|[0-1]\d|\d and %M is [0-5]\d|\d; the match must
\* consume the whole string, otherwise ValueError (ok = FALSE).
Strptime(s) ==
    LET n == Len(s)
        two(k) == k + 1 <= n /\ IsDigit(s[k]) /\ IsDigit(s[k + 1])
        num(k) == 10 * DigitVal(s[k]) + DigitVal(s[k + 1])
        h2 == two(1) /\ num(1) <= 23 /\ n >= 3 /\ s[3] = ":"
        h1 == ~h2 /\ n >= 2 /\ IsDigit(s[1]) /\ s[2] = ":"
        mpos == IF h2 THEN 4 ELSE 3
        hour == IF h2 THEN num(1) ELSE DigitVal(s[1])
        m2 == two(mpos) /\ DigitVal(s[mpos]) <= 5
        m1 == ~m2 /\ mpos <= n /\ IsDigit(s[mpos])
        mend == IF m2 THEN mpos + 1 ELSE mpos
        minute == IF m2 THEN num(mpos) ELSE DigitVal(s[mpos])
    IN  IF (h2 \/ h1) /\ (m2 \/ m1) /\ mend = n
        THEN [ok |-> TRUE, minutes |-> hour * MinutesPerHour + minute]
        ELSE [ok |-> FALSE, minutes |-> 0]

----------------------------------------------------------------------------
(* Calendar *)

Weekday == <<"monday", "tuesday", "wednesday", "thursday",
             "friday", "saturday", "sunday">>

\* datetime.date(): the day number of an instant
DateOf(t) == t \div MinutesPerDay

\* Weekday(datetime.now(UTC).strftime("%A").lower())
DayOfWeek(t) == Weekday[(DateOf(t) % 7) + 1]

\* datetime.combine(now, time).astimezone(UTC)
Combine(t, minutes) == DateOf(t) * MinutesPerDay + minutes

----------------------------------------------------------------------------
(* RoomConfig: the schedule is a function from some weekday names to an    *)
(* optional list of window strings                                         *)

todays_schedules(schedule, t) ==
    IF DayOfWeek(t) \in DOMAIN schedule THEN schedule[DayOfWeek(t)] ELSE None

\* within_time_range with the exclusive comparison of time_in_range
RECURSIVE WindowLoop_Strict(_, _)
WindowLoop_Strict(ws, t) ==
    IF ws = <<>> THEN "False"
    ELSE LET parts == Split(Head(ws))
             start == Strptime(parts[1])
             end == Strptime(parts[2])
         IN  IF ~start.ok THEN "False"
             ELSE IF Len(parts) < 2 THEN "IndexError"
             ELSE IF ~end.ok THEN "False"
             ELSE IF Combine(t, start.minutes) < t /\ t < Combine(t, end.minutes)
                  THEN "True"
             ELSE WindowLoop_Strict(Tail(ws), t)

\* the for loop of within_time_range over the windows ws; the result is
\* "True", "False" or the name of the exception that escapes the try
RECURSIVE WindowLoop(_, _)
WindowLoop(ws, t) ==
    IF ws = <<>> THEN "False"
    ELSE LET parts == Split(Head(ws))
             start == Strptime(parts[1])
             end == Strptime(parts[2])
         IN  IF ~start.ok THEN "False"
             ELSE IF Len(parts) < 2 THEN "IndexError"
             ELSE IF ~end.ok THEN "False"
             ELSE IF Combine(t, start.minutes) <= t /\ t <= Combine(t, end.minutes)
                  THEN "True"
             ELSE WindowLoop(Tail(ws), t)

\* within_time_range with a window that ends before it starts running over
\* midnight
within_time_range_Wrap(schedule, t) ==
    IF IsNone(todays_schedules(schedule, t)) THEN "False"
    ELSE LET ws == Val(todays_schedules(schedule, t))
             Wraps(w) ==
                 LET parts == Split(w)
                 IN  /\ Len(parts) >= 2
                     /\ Strptime(parts[1]).ok
                     /\ Strptime(parts[2]).ok
                     /\ Strptime(parts[2]).minutes < Strptime(parts[1]).minutes
                     /\ \/ Combine(t, Strptime(parts[1]).minutes) <= t
                        \/ t <= Combine(t, Strptime(parts[2]).minutes)
         IN  IF \E k \in 1..Len(ws) : Wraps(ws[k]) THEN "True"
             ELSE WindowLoop(ws, t)

within_time_range(schedule, t) ==
    IF IsNone(todays_schedules(schedule, t)) THEN "False"
    ELSE WindowLoop(Val(todays_schedules(schedule, t)), t)

----------------------------------------------------------------------------
(* Tibber: the price cache.  A sample is [total, start_at]; the cache is   *)
(* None or Some(list of samples), and the list may be empty.               *)

\* an hour that still holds the minute it ends at
end_at_Closed(price) == price.start_at + MinutesPerHour + 1

\* HourlyPrice.end_at
end_at(price) == price.start_at + MinutesPerHour

\* Tibber.is_stale: "True", "False", or the exception it raises.  A
\* DailyPrices object is truthy whatever its list holds, so only None takes
\* the first branch; prices[0] of an empty list raises IndexError.
is_stale(dep, t) ==
    IF IsNone(dep) THEN "True"
    ELSE IF Len(Val(dep)) = 0 THEN "IndexError"
    ELSE IF DateOf(Val(dep)[1].start_at) # DateOf(t) THEN "True"
    ELSE "False"

\* the for ... else of update_electricity_prices: the total of the first
\* sample whose hour contains t, None when there is none
RECURSIVE FirstMatch(_, _)
FirstMatch(prices, t) ==
    IF prices = <<>> THEN None
    ELSE IF Head(prices).start_at <= t /\ t < end_at(Head(prices))
         THEN Some(Head(prices).total)
    ELSE FirstMatch(Tail(prices), t)

\* exceed_max_price with a price equal to the cut-off not exceeding it
exceed_max_price_Above(p_now, price_cut_off) ==
    IF IsNone(p_now) \/ Val(p_now) = 0 \/ IsNone(price_cut_off) THEN FALSE
    ELSE IF Val(p_now) <= Val(price_cut_off) THEN FALSE
    ELSE TRUE

\* Tibber.exceed_max_price
exceed_max_price(p_now, price_cut_off) ==
    IF IsNone(p_now) \/ Val(p_now) = 0 \/ IsNone(price_cut_off) THEN FALSE
    ELSE IF Val(p_now) < Val(price_cut_off) THEN FALSE
    ELSE TRUE

\* what update_daily_electricity_prices does with the outcome of the POST:
\* "raise" names the exception it raises ("none": it returns prices)
update_daily_electricity_prices(resp) ==
    CASE resp.kind = "transport" -> [raise |-> "TibberApiError", prices |-> <<>>]
      [] resp.kind = "status"    -> [raise |-> "HTTPStatusError", prices |-> <<>>]
      [] resp.kind = "malformed" -> [raise |-> "ValidationError", prices |-> <<>>]
      [] OTHER                   -> [raise |-> "none", prices |-> resp.prices]

\* the except clause of update_electricity_prices
CaughtByUpdate == {"TibberApiError", "ValidationError"}

----------------------------------------------------------------------------
(* adjust_temperature and ensure_temperature.  A device is the state of   *)
(* one thermostat, [temperature, heat_set_point] in 1/100 degree.  get and *)
(* put are the outcomes of the HTTP requests: "ok", "transport" (an        *)
(* httpx.RequestError), "status" (a non-success status code) and, for the  *)
(* GET, "invalid" (status 200 with a body Termostat cannot be built from). *)

\* the clamp with exclusive comparisons
set_temp_Exclusive(temperature) ==
    IF temperature < ClampLow \/ temperature > ClampHigh
    THEN DefaultTemperature * Scale
    ELSE temperature * Scale

\* the heatsetpoint adjust_temperature puts in the payload
set_temp(temperature) ==
    IF temperature <= ClampLow \/ temperature >= ClampHigh
    THEN DefaultTemperature * Scale
    ELSE temperature * Scale

\* adjust_temperature: only httpx.RequestError is caught, so the
\* HTTPStatusError of raise_for_status leaves the function
adjust_temperature(device, temperature, put) ==
    [raise |-> IF put = "status" THEN "HTTPStatusError" ELSE "none",
     payload |-> set_temp(temperature),
     device |-> IF put = "ok"
                THEN [device EXCEPT !.heat_set_point = set_temp(temperature)]
                ELSE device]

\* get_heatsetpoint_sensor calling raise_for_status as adjust_temperature does
get_heatsetpoint_sensor_Raise(get, device) ==
    CASE get = "ok"      -> [raise |-> "none", termostat |-> Some(device)]
      [] get = "invalid" -> [raise |-> "ValidationError", termostat |-> None]
      [] get = "status"  -> [raise |-> "HTTPStatusError", termostat |-> None]
      [] OTHER           -> [raise |-> "none", termostat |-> None]

\* get_heatsetpoint_sensor: a Termostat snapshot in Some, None, or an exception
get_heatsetpoint_sensor(get, device) ==
    CASE get = "ok"      -> [raise |-> "none", termostat |-> Some(device)]
      [] get = "invalid" -> [raise |-> "ValidationError", termostat |-> None]
      [] OTHER           -> [raise |-> "none", termostat |-> None]

\* the second half of the condition of ensure_temperature
NeedsWrite(termostat, set_temperature) ==
    termostat.temperature # set_temperature * Scale

\* ensure_temperature: what was read, what was written and exported, the
\* device afterwards and the exception that leaves the function
ensure_temperature(device, set_temperature, get, put) ==
    LET sensor == get_heatsetpoint_sensor(get, device)
        snap == sensor.termostat
        write == /\ sensor.raise = "none"
                 /\ ~IsNone(snap)
                 /\ NeedsWrite(Val(snap), set_temperature)
        adjusted == adjust_temperature(device, set_temperature, put)
    IN  [raise |-> IF write THEN adjusted.raise ELSE sensor.raise,
         read |-> get,
         temperature |-> IF IsNone(snap) THEN None ELSE Some(Val(snap).temperature),
         heat_set_point |-> IF IsNone(snap) THEN None ELSE Some(Val(snap).heat_set_point),
         put |-> IF write THEN put ELSE "none",
         payload |-> IF write THEN Some(adjusted.payload) ELSE None,
         exported |-> IF write /\ adjusted.raise = "none"
                      THEN Some(Val(snap).heat_set_point) ELSE None,
         device |-> IF write THEN adjusted.device ELSE device]

----------------------------------------------------------------------------
(* set_schedule: the target of one room *)

NightTarget(room, global) ==
    Val(PyOr(PyOr(room.night_temperature, global.night_temperature),
             Some(DefaultTemperature)))

DayTarget(room, global) ==
    Val(PyOr(PyOr(room.temperature, global.temperature),
             Some(DefaultTemperature)))

PriceCutOff(room, global) == PyOr(room.max_price, global.max_price)

\* set_schedule with the schedule tested before the price
ResolveTarget_ScheduleFirst(room, global, p_now, t) ==
    LET within == within_time_range(room.schedule, t)
    IN  [exceed |-> exceed_max_price(p_now, PriceCutOff(room, global)),
         within |-> within,
         target |-> IF within = "True" THEN DayTarget(room, global)
                    ELSE NightTarget(room, global)]

\* the if / elif of set_schedule; within is evaluated only when the price
\* branch is not taken
ResolveTarget(room, global, p_now, t) ==
    LET exceed == exceed_max_price(p_now, PriceCutOff(room, global))
        within == IF exceed THEN "skipped" ELSE within_time_range(room.schedule, t)
    IN  [exceed |-> exceed,
         within |-> within,
         target |-> IF within = "True" THEN DayTarget(room, global)
                    ELSE NightTarget(room, global)]

----------------------------------------------------------------------------
(* Inputs: window strings, schedules, configurations, prices, instants *)

Char2(n) == <<Digits[(n \div 10) + 1], Digits[(n % 10) + 1]>>

\* "HH:MM" of a minute of the day, as the configuration file writes it
FormatTime(m) == Char2(m \div MinutesPerHour) \o <<":">> \o Char2(m % MinutesPerHour)

\* a window is described by [kind |-> "hm", start, end] (well-formed, minutes
\* of the day) or by [kind |-> "raw", text] (any other string)
Render(w) ==
    IF w.kind = "hm" THEN FormatTime(w.start) \o <<"-">> \o FormatTime(w.end)
    ELSE w.text

HM(s, e) == [kind |-> "hm", start |-> s, end |-> e]

Raw(text) == [kind |-> "raw", text |-> text]

WindowTimes == {120, 480, 1320}

WellFormedWindows == {HM(s, e) : s \in WindowTimes, e \in WindowTimes}

MalformedWindows ==
    { Raw(<<>>),                                                  \* ""
      Raw(<<"0", "8", ":", "0", "0">>),                           \* "08:00"
      Raw(<<"0", "8", "0", "0">>),                                \* "0800"
      Raw(<<"a", "a", ":", "0", "0", "-", "2", "2", ":", "0", "0">>),   \* "aa:00-22:00"
      Raw(<<"0", "8", ":", "0", "0", "-", "2", "5", ":", "0", "0">>) }  \* "08:00-25:00"

Windows == WellFormedWindows \cup MalformedWindows

RECURSIVE SeqsUpTo(_, _)
SeqsUpTo(S, n) ==
    IF n = 0 THEN {<<>>}
    ELSE LET shorter == SeqsUpTo(S, n - 1)
         IN  shorter \cup {Append(q, x) : q \in {r \in shorter : Len(r) = n - 1}, x \in S}

RenderAll(ws) == [k \in 1..Len(ws) |-> Render(ws[k])]

\* monday has the windows ws, tuesday is present without a list, the other
\* weekdays are absent from the mapping
MondaySchedule(ws) ==
    [d \in {"monday", "tuesday"} |-> IF d = "monday" THEN Some(RenderAll(ws)) ELSE None]

\* the same windows on every weekday
DailySchedule(ws) == [d \in {Weekday[k] : k \in 1..7} |-> Some(RenderAll(ws))]

Days == 0..MaxDay

At(day, minute) == day * MinutesPerDay + minute

\* the instants the clock takes in the control loop: 10:00 and 23:00
LoopTimes == {600, 1380}

Instants == {At(d, m) : d \in Days, m \in LoopTimes}

\* the instants at which a schedule is evaluated on its own
ScheduleTimes == {0, 120, 479, 480, 481, 1319, 1320, 1321}

ScheduleInstants == {At(d, m) : d \in Days, m \in ScheduleTimes}

\* the price lists a fetch can return for the day d: a sample for 10:00 with
\* one of the totals, followed by a sample for 23:00
PriceListsOf(totals, d) ==
    {<<[total |-> a, start_at |-> At(d, 600)], [total |-> 100, start_at |-> At(d, 1380)]>> :
        a \in totals}

Totals == {0, 200}

PriceLists == {<<>>} \cup UNION {PriceListsOf(Totals, d) : d \in Days}

Responses ==
    {[kind |-> k, prices |-> <<>>] : k \in {"transport", "status", "malformed"}}
    \cup {[kind |-> "ok", prices |-> l] : l \in PriceLists}

GetOutcomes == {"ok", "transport", "status", "invalid"}

PutOutcomes == {"ok", "transport", "status"}

MeasuredTemperatures == {1600, 2150}

Rooms == 1..NumRooms

Devices == [Rooms -> [temperature : MeasuredTemperatures, heat_set_point : {1000}]]

DayWindow == HM(480, 1320)

NoGlobals == [max_price |-> None, temperature |-> None, night_temperature |-> None]

\* the living room of the documentation: 21 by day, 16 by night, cut-off 1.50
LivingRoom ==
    [temperature |-> Some(21), night_temperature |-> Some(16),
     max_price |-> Some(150), schedule |-> DailySchedule(<<DayWindow>>)]

\* a room whose window has no end time
BrokenRoom == [LivingRoom EXCEPT !.schedule = DailySchedule(<<Raw(<<"0", "8", ":", "0", "0">>)>>)]

\* a room that leaves everything to the defaults
PlainRoom ==
    [temperature |-> None, night_temperature |-> None,
     max_price |-> None, schedule |-> MondaySchedule(<<DayWindow>>)]

\* the configurations of the control loop: one of the first two rooms,
\* followed by plain rooms
Configs ==
    {[global_config |-> NoGlobals,
      room |-> [r \in Rooms |-> IF r = 1 THEN first ELSE PlainRoom]] :
        first \in {LivingRoom, BrokenRoom}}

\* the configurations on which the target policy is evaluated: one room
PolicyTotals == {0, 100, 150, 200}

PolicyGlobals ==
    [max_price : {None, Some(100)},
     temperature : {None, Some(20)},
     night_temperature : {None, Some(15)}]

PolicyRooms ==
    [temperature : {None, Some(0), Some(21)},
     night_temperature : {None, Some(0), Some(16)},
     max_price : {None, Some(0), Some(150)},
     schedule : {DailySchedule(<<DayWindow>>)}]

PolicyConfigs ==
    {[global_config |-> g, room |-> <<r>>] : g \in PolicyGlobals, r \in PolicyRooms}

\* the targets ensure_temperature is called with on its own: around both
\* ends of the clamp, and 16
Margin == 1

Targets ==
    ((ClampLow - Margin)..(ClampLow + Margin)) \cup {16}
    \cup ((ClampHigh - Margin)..(ClampHigh + Margin))

----------------------------------------------------------------------------
(* The control loop *)

NoTick == [fetch |-> "none", rooms |-> <<>>]

\* turn alternates from one call of ensure_temperature to the next; exceed is
\* what exceed_max_price returned for the room; retry tells that the call
\* before this one was for the same room and ended in a failed PUT
NoEvent ==
    [room |-> 0, target |-> 0, exceed |-> FALSE, read |-> "none",
     temperature |-> None, heat_set_point |-> None,
     put |-> "none", payload |-> None, exported |-> None,
     retry |-> FALSE, turn |-> 0]

NoEval == [windows |-> <<>>, t |-> 0, result |-> "none"]

\* main() up to the while loop: load_config() and Tibber(config.tibber)
Init ==
    /\ pc = "load"
    /\ error = "none"
    /\ now \in Instants
    /\ config \in Configs
    /\ room_idx = 1
    /\ daily_electricity_prices = None
    /\ price_now = None
    /\ thermostat \in Devices
    /\ tick = NoTick
    /\ ev = NoEvent
    /\ eval = NoEval

\* an exception that nothing catches leaves main()
Crash(e) ==
    /\ pc' = "crashed"
    /\ error' = e

\* where main() stands once set_schedule has handled the rooms before idx
AfterRoom(idx) == IF idx > Len(config.room) THEN "sleep" ELSE "rooms"

\* config = load_config(): the file is read again at the start of the tick,
\* and may have been edited since the tick before
LoadConfig ==
    /\ pc = "load"
    /\ pc' = "update"
    /\ config' \in Configs
    /\ tick' = NoTick
    /\ ev' = NoEvent
    /\ UNCHANGED <<error, now, room_idx, daily_electricity_prices, price_now,
                   thermostat, eval>>

\* tbr.update_electricity_prices()
UpdatePrices ==
    /\ pc = "update"
    /\ LET stale == is_stale(daily_electricity_prices, now)
       IN  \/ /\ stale = "IndexError"
              /\ Crash("IndexError")
              /\ UNCHANGED <<daily_electricity_prices, price_now, room_idx, tick>>
           \/ /\ stale = "False"
              /\ price_now' = FirstMatch(Val(daily_electricity_prices), now)
              /\ pc' = AfterRoom(1)
              /\ room_idx' = 1
              /\ UNCHANGED <<error, daily_electricity_prices, tick>>
           \/ /\ stale = "True"
              /\ \E resp \in Responses :
                   LET got == update_daily_electricity_prices(resp)
                   IN  /\ tick' = [tick EXCEPT !.fetch = resp.kind]
                       /\ IF got.raise = "none"
                          THEN /\ daily_electricity_prices' = Some(got.prices)
                               /\ price_now' = FirstMatch(got.prices, now)
                               /\ pc' = AfterRoom(1)
                               /\ room_idx' = 1
                               /\ UNCHANGED error
                          ELSE IF got.raise \in CaughtByUpdate
                          THEN /\ daily_electricity_prices' = None
                               /\ price_now' = None
                               /\ pc' = AfterRoom(1)
                               /\ room_idx' = 1
                               /\ UNCHANGED error
                          ELSE /\ Crash(got.raise)
                               /\ UNCHANGED <<daily_electricity_prices, price_now, room_idx>>
    /\ UNCHANGED <<now, config, thermostat, ev, eval>>

\* the record of a call ensure_temperature(room r, target), done == its result
Event(r, target, exceed, done) ==
    [room |-> r, target |-> target, exceed |-> exceed, read |-> done.read,
     temperature |-> done.temperature, heat_set_point |-> done.heat_set_point,
     put |-> done.put, payload |-> done.payload, exported |-> done.exported,
     retry |-> ev.room = r /\ ev.put \in {"transport", "status"},
     turn |-> 1 - ev.turn]

\* one iteration of the for loop of set_schedule, ensure_temperature included
RoomBody ==
    /\ pc = "rooms"
    /\ LET r == room_idx
           res == ResolveTarget(config.room[r], config.global_config, price_now, now)
       IN  /\ tick' = [tick EXCEPT !.rooms = Append(@, r)]
           /\ IF res.within = "IndexError"
              THEN /\ Crash("IndexError")
                   /\ ev' = [NoEvent EXCEPT !.room = r, !.turn = 1 - ev.turn]
                   /\ UNCHANGED <<room_idx, thermostat>>
              ELSE \E get \in GetOutcomes, put \in PutOutcomes :
                     LET done == ensure_temperature(thermostat[r], res.target, get, put)
                     IN  /\ ev' = Event(r, res.target, res.exceed, done)
                         /\ thermostat' = [thermostat EXCEPT ![r] = done.device]
                         /\ IF done.raise = "none"
                            THEN /\ pc' = AfterRoom(r + 1)
                                 /\ room_idx' = r + 1
                                 /\ UNCHANGED error
                            ELSE /\ Crash(done.raise)
                                 /\ UNCHANGED room_idx

\* set_schedule calling update_electricity_prices again for every room, with
\* a fetch that fails
RoomStep_Refresh ==
    /\ RoomBody
    /\ daily_electricity_prices' = None
    /\ price_now' = None
    /\ UNCHANGED <<now, config, eval>>

\* set_schedule reads the Tibber object and the configuration, and writes neither
RoomStep ==
    /\ RoomBody
    /\ UNCHANGED <<now, config, daily_electricity_prices, price_now, eval>>

\* sleep(config.global_config.sleep or 60)
Sleep ==
    /\ pc = "sleep"
    /\ pc' = "load"
    /\ UNCHANGED <<error, now, config, room_idx, daily_electricity_prices,
                   price_now, thermostat, tick, ev, eval>>

\* the clock moves on, at any point of the loop
ClockAdvance ==
    /\ pc # "crashed"
    /\ \E t \in Instants : t > now /\ now' = t
    /\ UNCHANGED <<pc, error, config, room_idx, daily_electricity_prices,
                   price_now, thermostat, tick, ev, eval>>

\* the room warms up or cools down
TemperatureDrift ==
    /\ pc # "crashed"
    /\ \E r \in Rooms, v \in MeasuredTemperatures :
         /\ v # thermostat[r].temperature
         /\ thermostat' = [thermostat EXCEPT ![r].temperature = v]
    /\ UNCHANGED <<pc, error, now, config, room_idx, daily_electricity_prices,
                   price_now, tick, ev, eval>>

Next ==
    \/ LoadConfig
    \/ UpdatePrices
    \/ RoomStep
    \/ Sleep
    \/ ClockAdvance
    \/ TemperatureDrift

Spec == Init /\ [][Next]_vars

----------------------------------------------------------------------------
(* set_schedule on its own: one pass over the rooms of a configuration,    *)
(* from every state of the price cache update_electricity_prices leaves    *)

InitPolicy ==
    /\ pc = "rooms"
    /\ error = "none"
    /\ now \in {At(0, m) : m \in LoopTimes}
    /\ config \in PolicyConfigs
    /\ room_idx = 1
    /\ daily_electricity_prices \in {None} \cup {Some(l) : l \in PriceListsOf(PolicyTotals, 0)}
    /\ price_now = IF IsNone(daily_electricity_prices) THEN None
                   ELSE FirstMatch(Val(daily_electricity_prices), now)
    /\ thermostat \in Devices
    /\ tick = NoTick
    /\ ev = NoEvent
    /\ eval = NoEval

NextPolicy == RoomStep

SpecPolicy == InitPolicy /\ [][NextPolicy]_vars

----------------------------------------------------------------------------
(* ensure_temperature on its own: repeated calls for one room, with any   *)
(* target                                                                  *)

InitReconcile ==
    /\ pc = "call"
    /\ error = "none"
    /\ now = At(0, 600)
    /\ config = CHOOSE c \in Configs : c.room[1] = LivingRoom
    /\ room_idx \in Rooms
    /\ daily_electricity_prices = None
    /\ price_now = None
    /\ thermostat \in Devices
    /\ tick = NoTick
    /\ ev = NoEvent
    /\ eval = NoEval

Reconcile ==
    /\ pc = "call"
    /\ \E t \in Targets, get \in GetOutcomes, put \in PutOutcomes :
         LET r == room_idx
             done == ensure_temperature(thermostat[r], t, get, put)
         IN  /\ ev' = Event(r, t, FALSE, done)
             /\ thermostat' = [thermostat EXCEPT ![r] = done.device]
             /\ IF done.raise = "none"
                THEN UNCHANGED <<pc, error>>
                ELSE Crash(done.raise)
    /\ UNCHANGED <<now, config, room_idx, daily_electricity_prices, price_now,
                   tick, eval>>

NextReconcile ==
    \/ Reconcile
    \/ TemperatureDrift

SpecReconcile == InitReconcile /\ [][NextReconcile]_vars

----------------------------------------------------------------------------
(* within_time_range on its own: any list of windows for monday, evaluated *)
(* at any instant                                                          *)

ScheduleConfig(ws) ==
    [global_config |-> NoGlobals,
     room |-> <<[PlainRoom EXCEPT !.schedule = MondaySchedule(ws)]>>]

InitSchedule ==
    /\ pc = "schedule"
    /\ error = "none"
    /\ eval \in [windows : SeqsUpTo(Windows, MaxWindows), t : ScheduleInstants,
                 result : {"none"}]
    /\ now = eval.t
    /\ config = ScheduleConfig(eval.windows)
    /\ room_idx = 1
    /\ daily_electricity_prices = None
    /\ price_now = None
    /\ thermostat = CHOOSE d \in Devices : TRUE
    /\ tick = NoTick
    /\ ev = NoEvent

EvaluateSchedule ==
    /\ pc = "schedule"
    /\ eval.result = "none"
    /\ eval' = [eval EXCEPT !.result = within_time_range(config.room[1].schedule, now)]
    /\ UNCHANGED <<pc, error, now, config, room_idx, daily_electricity_prices,
                   price_now, thermostat, tick, ev>>

NextSchedule == EvaluateSchedule

SpecSchedule == InitSchedule /\ [][NextSchedule]_vars

----------------------------------------------------------------------------
(* update_electricity_prices on its own: any cache of samples of day 0,    *)
(* hour-aligned or not, overlapping or not, at instants around their ends  *)

\* minutes of day 0 around 09:00, 09:30, 10:00 and 11:00
PriceTimes == {539, 540, 599, 600, 629, 659, 660}

PriceInstants == {At(0, m) : m \in PriceTimes}

SampleStarts == {540, 570, 600}

Samples == [total : {0, 100, 200}, start_at : {At(0, m) : m \in SampleStarts}]

Caches == {None} \cup {Some(l) : l \in SeqsUpTo(Samples, MaxSamples)}

\* the price an earlier tick left behind
EarlierPrices(dep, t) ==
    IF IsNone(dep) THEN {None}
    ELSE {None} \cup {FirstMatch(Val(dep), u) : u \in {v \in PriceInstants : v <= t}}

InitPrice ==
    /\ pc = "update"
    /\ error = "none"
    /\ now \in PriceInstants
    /\ config = CHOOSE c \in Configs : c.room[1] = LivingRoom
    /\ room_idx = 1
    /\ daily_electricity_prices \in Caches
    /\ price_now \in EarlierPrices(daily_electricity_prices, now)
    /\ thermostat = CHOOSE d \in Devices : TRUE
    /\ tick = NoTick
    /\ ev = NoEvent
    /\ eval = NoEval

\* the rest of the tick, which leaves the Tibber object alone: set_schedule,
\* the sleep and load_config, while the clock moves on
NextTick ==
    /\ pc \in {"rooms", "sleep"}
    /\ pc' = "update"
    /\ \E t \in PriceInstants : t > now /\ now' = t
    /\ tick' = NoTick
    /\ UNCHANGED <<error, config, room_idx, daily_electricity_prices, price_now,
                   thermostat, ev, eval>>

NextPrice ==
    \/ UpdatePrices
    \/ NextTick

SpecPrice == InitPrice /\ [][NextPrice]_vars

----------------------------------------------------------------------------
(* Properties *)

FetchFailures == {"transport", "status", "malformed"}

WriteFailures == {"transport", "status"}

Booleans == {"True", "False"}

\* the room the latest iteration of set_schedule was about
EvRoom == config.room[ev.room]

\* two successive calls of ensure_temperature for the same room with the same
\* target, both sensor reads succeeding, every set-point sent being applied,
\* and the measured temperature unchanged
SameCallTwice ==
    /\ ev'.turn # ev.turn
    /\ ev.room = ev'.room
    /\ ev.target = ev'.target
    /\ ev.read = "ok" /\ ev'.read = "ok"
    /\ ev.put \in {"none", "ok"} /\ ev'.put \in {"none", "ok"}
    /\ ev.temperature = ev'.temperature

\* C1: when ensure_temperature is called twice in a row with nothing changed
\* in between, the two calls issue at most one actuator write.
C1_Idempotent == [][SameCallTwice => ~(ev.put = "ok" /\ ev'.put = "ok")]_vars

\* C2: when the price exceeds the room's (else the global) cut-off, the
\* target passed to ensure_temperature is the night target, whether or not
\* the time lies inside a window of the room.
C2_PricePrecedence ==
    (/\ ev.room > 0
     /\ exceed_max_price(price_now, PyOr(EvRoom.max_price, config.global_config.max_price)))
    => ev.target = NightTarget(EvRoom, config.global_config)

C2_Witness ==
    /\ ev.room = 1
    /\ exceed_max_price(price_now, PyOr(EvRoom.max_price, config.global_config.max_price))
    /\ EvRoom.schedule = DailySchedule(<<DayWindow>>)
    /\ DayWindow.start < now % MinutesPerDay /\ now % MinutesPerDay < DayWindow.end
    /\ DayTarget(EvRoom, config.global_config) # NightTarget(EvRoom, config.global_config)
    /\ ev.target = NightTarget(EvRoom, config.global_config)

\* the windows configured for the weekday of the evaluated instant
WindowsToday == IF DayOfWeek(eval.t) = "monday" THEN eval.windows ELSE <<>>

AllWellFormed == \A k \in 1..Len(eval.windows) : eval.windows[k].kind = "hm"

StartOf(w) == At(DateOf(eval.t), w.start)

EndOf(w) == At(DateOf(eval.t), w.end)

StrictlyInside(w) == StartOf(w) < eval.t /\ eval.t < EndOf(w)

Inside(w) == StartOf(w) <= eval.t /\ eval.t <= EndOf(w)

CutOffs == {None, Some(0), Some(100), Some(150)}

\* C4: whatever the kind of failure of the price fetch, update_electricity_prices
\* returns with the cache empty and no current price, no cut-off is exceeded,
\* and the tick goes on with the rooms.
C4_FetchFailureRecoverable ==
    (tick.fetch \in FetchFailures /\ tick.rooms = <<>>)
    => /\ pc = "rooms"
       /\ error = "none"
       /\ daily_electricity_prices = None
       /\ price_now = None
       /\ \A c \in CutOffs : ~exceed_max_price(price_now, c)

\* C5: a failed actuator write (transport error or non-success status) is
\* swallowed, and set_schedule goes on with the room after it.
C5_WriteErrorIsolated ==
    ev.put \in WriteFailures
    => /\ error = "none"
       /\ pc \in {"rooms", "sleep", "load"}
       /\ room_idx = ev.room + 1

\* C6: whatever fails during a tick, main() does not terminate.
C6_LoopNeverStops == pc # "crashed"

\* C7: a window string that is not "HH:MM-HH:MM" makes within_time_range
\* return False for that window and raises no exception.
C7_MalformedFailsClosed ==
    (/\ eval.result # "none"
     /\ \E k \in 1..Len(WindowsToday) : WindowsToday[k].kind = "raw")
    => /\ eval.result \in Booleans
       /\ Len(WindowsToday) = 1 => eval.result = "False"

\* C8: the set-point sent for a requested target t is 1000 when t <= 5 or
\* t >= 25 and t * 100 otherwise, so every set-point sent, and every
\* set-point a thermostat holds, is strictly between 5 and 25 degrees.
C8_ClampLaw ==
    /\ ~IsNone(ev.payload)
       => /\ Val(ev.payload) = IF ev.target <= 5 \/ ev.target >= 25 THEN 1000
                               ELSE ev.target * 100
          /\ 500 < Val(ev.payload) /\ Val(ev.payload) < 2500
    /\ \A r \in Rooms :
         500 < thermostat[r].heat_set_point /\ thermostat[r].heat_set_point < 2500

C8_Witness ==
    /\ ev.target = 5
    /\ ev.put = "ok"
    /\ ev.payload = Some(1000)
    /\ thermostat[ev.room].heat_set_point = 1000

\* the cache holds no sample
NoSamples ==
    IsNone(daily_electricity_prices) \/ Len(Val(daily_electricity_prices)) = 0

\* C9: is_stale is True when the cache holds no samples and when the date of
\* the held samples is not today's, and False otherwise.
C9_StalenessLaw ==
    is_stale(daily_electricity_prices, now) =
        IF NoSamples THEN "True"
        ELSE IF DateOf(Val(daily_electricity_prices)[1].start_at) # DateOf(now) THEN "True"
        ELSE "False"

C10_Step ==
    /\ (tick'.fetch # tick.fetch /\ tick'.fetch # "none")
       => (tick.fetch = "none" /\ tick.rooms = <<>> /\ tick'.rooms = <<>>)
    /\ (daily_electricity_prices' # daily_electricity_prices \/ price_now' # price_now)
       => (pc = "update" /\ tick.rooms = <<>> /\ tick'.rooms = <<>>)
    /\ (tick'.rooms # tick.rooms /\ tick'.rooms # <<>>)
       => /\ tick'.rooms = Append(tick.rooms, Len(tick.rooms) + 1)
          /\ tick'.fetch = tick.fetch
          /\ daily_electricity_prices' = daily_electricity_prices
          /\ price_now' = price_now

\* C10: in a tick the price cache is refreshed at most once and before any
\* room; handling a room changes neither the samples nor the current price;
\* the rooms are handled in the order of the configuration.
C10_OneSnapshot == [][C10_Step]_vars

C10_Witness ==
    /\ pc = "sleep"
    /\ tick.fetch = "ok"
    /\ ~IsNone(price_now)
    /\ tick.rooms = [k \in 1..Len(config.room) |-> k]
    /\ Len(tick.rooms) >= 2

ReadFailures == {"transport", "status"}

\* C11: when the sensor GET of a room fails (transport error or status other
\* than 200), the call writes nothing and exports nothing, raises nothing,
\* the room is handled once in the tick, and set_schedule goes on with the
\* room after it.
C11_ReadFailureSkipsRoom ==
    (pc # "call" /\ ev.read \in ReadFailures)
    => /\ ev.put = "none"
       /\ IsNone(ev.payload)
       /\ IsNone(ev.exported)
       /\ error = "none"
       /\ pc \in {"rooms", "sleep", "load"}
       /\ room_idx = ev.room + 1
       /\ Cardinality({k \in 1..Len(tick.rooms) : tick.rooms[k] = ev.room}) = 1

C11_Witness ==
    /\ ev.read = "status"
    /\ ev.room = 1
    /\ tick.rooms = <<1>>
    /\ pc = "rooms"
    /\ room_idx = 2

\* C12: when the sensor read succeeds, ensure_temperature writes iff the heat
\* set-point it read differs from the target, and exports nothing when it
\* does not write.
C12_WriteOnMismatch ==
    ev.read = "ok"
    => /\ ev.put # "none" <=> Val(ev.heat_set_point) # ev.target * 100
       /\ ev.put = "none" => IsNone(ev.exported)

\* the samples of a cache of which the half-open hour holds t
Holding(dep, t) ==
    {k \in 1..Len(Val(dep)) :
        /\ Val(dep)[k].start_at <= t
        /\ t < Val(dep)[k].start_at + MinutesPerHour}

\* C13: once update_electricity_prices has returned at time now, price_now is
\* the total of the first cached sample whose interval
\* [start_at, start_at + 60 min) holds now, and None when no sample holds now,
\* when the list is empty and when there is no cache; whatever price the
\* tick before left behind.
C13_CurrentPrice ==
    pc \in {"rooms", "sleep"}
    => IF IsNone(daily_electricity_prices)
          \/ Holding(daily_electricity_prices, now) = {}
       THEN IsNone(price_now)
       ELSE LET hits == Holding(daily_electricity_prices, now)
                first == CHOOSE k \in hits : \A j \in hits : k <= j
            IN  price_now = Some(Val(daily_electricity_prices)[first].total)

\* at 10:00 sharp, with the 09:00 sample ahead of the 10:00 sample in the list
C13_Witness ==
    /\ pc \in {"rooms", "sleep"}
    /\ now = At(0, 600)
    /\ ~IsNone(daily_electricity_prices)
    /\ Len(Val(daily_electricity_prices)) = 2
    /\ Val(daily_electricity_prices)[1] = [total |-> 100, start_at |-> At(0, 540)]
    /\ Val(daily_electricity_prices)[2] = [total |-> 200, start_at |-> At(0, 600)]
    /\ price_now = Some(200)

\* C14: for the current price p and the cut-off c it is called with,
\* exceed_max_price returns False when p is unavailable or zero or c is absent,
\* and otherwise True exactly when p >= c; a price equal to the cut-off
\* exceeds it.
C14_ExceedLaw ==
    ev.room > 0
    => LET p == price_now
           c == PriceCutOff(EvRoom, config.global_config)
       IN  ev.exceed = IF IsNone(p) \/ IsNone(c) THEN FALSE
                       ELSE IF Val(p) = 0 THEN FALSE
                       ELSE Val(p) >= Val(c)

\* the price 1.50 against the cut-off 1.50
C14_Witness ==
    /\ ev.room > 0
    /\ price_now = Some(150)
    /\ PriceCutOff(EvRoom, config.global_config) = Some(150)
    /\ ev.exceed

\* the call before this one for the same room ended in a failed PUT, this
\* call read the sensor, and the set-point it read is not the target
RetryDue ==
    /\ ev.retry
    /\ ev.read = "ok"
    /\ Val(ev.heat_set_point) # ev.target * Scale

\* C15: after a failed PUT for a room the next call of ensure_temperature for
\* that room (the one of the next tick) is reached, and when it reads the
\* sensor and the set-point still differs from the target it sends the PUT
\* again.
C15_WriteRetried ==
    /\ ev.put \in WriteFailures => pc # "crashed"
    /\ RetryDue => ev.put # "none"

\* the room's field when it is set, else the global field when that is set,
\* else 10
FieldOrGlobal(own, shared) ==
    IF ~IsNone(own) THEN Val(own)
    ELSE IF ~IsNone(shared) THEN Val(shared)
    ELSE DefaultTemperature

\* C16: when the price does not exceed the cut-off, the target is the day
\* value inside the room's window and the night value outside it, each value
\* being the room's field when set, else the global field when set, else 10.
C16_FallbackResolution ==
    (ev.room > 0 /\ ~ev.exceed)
    => ev.target =
         IF /\ DayWindow.start < now % MinutesPerDay
            /\ now % MinutesPerDay < DayWindow.end
         THEN FieldOrGlobal(EvRoom.temperature, config.global_config.temperature)
         ELSE FieldOrGlobal(EvRoom.night_temperature,
                            config.global_config.night_temperature)

\* C17: with several windows for the weekday, within_time_range returns True
\* whenever some well-formed window holds now, wherever that window stands
\* in the list and whether or not another window of the list is malformed.
C17_AnyWellFormedWindow ==
    (/\ eval.result # "none"
     /\ \E k \in 1..Len(WindowsToday) :
          /\ WindowsToday[k].kind = "hm"
          /\ StrictlyInside(WindowsToday[k]))
    => eval.result = "True"

\* C18: a call of ensure_temperature that sends a set-point exports a record
\* whose heatsetpoint is the set-point just sent, and a call that sends none
\* exports no record.
C18_ExportPostWrite ==
    /\ ~IsNone(ev.exported) => ev.exported = ev.payload
    /\ ev.put = "none" => IsNone(ev.exported)

\* a window whose end time of day is earlier than its start time of day
CrossMidnight(w) == w.kind = "hm" /\ w.end < w.start

\* C19: a window that ends before it starts (22:00-02:00) never makes
\* within_time_range True, on the day it starts or on the day after: every
\* True comes from a window of the day with start <= end that holds now.
C19_CrossMidnightNeverMatches ==
    eval.result = "True"
    => \E k \in 1..Len(WindowsToday) :
         /\ WindowsToday[k].kind = "hm"
         /\ ~CrossMidnight(WindowsToday[k])
         /\ Inside(WindowsToday[k])

\* 22:00-02:00 alone on a Monday at 22:01, and at 00:00
C19_Witness ==
    /\ eval.result = "False"
    /\ eval.windows = <<HM(1320, 120)>>
    /\ eval.t \in {At(0, 1321), At(0, 0)}

\* the cache is stale: no samples, or samples of another date than today's
StaleCache ==
    \/ NoSamples
    \/ DateOf(Val(daily_electricity_prices)[1].start_at) # DateOf(now)

\* one call of update_electricity_prices, from the start of the tick
C20_Step ==
    (pc = "update" /\ pc' # "update")
    => /\ tick'.fetch # "none" <=> StaleCache
       /\ tick'.fetch = "none" => daily_electricity_prices' = daily_electricity_prices
       /\ tick'.fetch \in FetchFailures
          => (IsNone(daily_electricity_prices') /\ pc' # "crashed")

\* C20: a tick fetches the prices exactly when the cache is stale at its
\* start; with samples of today no fetch happens and the samples stay; a
\* failed fetch clears the samples and leaves the loop running, so that the
\* following tick fetches again.
C20_FetchOnlyWhenStale == [][C20_Step]_vars

====
